---- MODULE Spec2Model ----
(***************************************************************************)
(* State-machine model of sunrise_bot.py: the notification scheduler       *)
(* (check_notifications / send_notification / clear_notified_events), the  *)
(* commands that touch the shared state (times, test, location_handler)    *)
(* and the asyncio interleaving between them.                              *)
(*                                                                         *)
(* Time is an integer number of seconds on the UTC axis.  A calendar date  *)
(* is a day number: the date of instant t in a zone with offset tz is      *)
(* (t + tz) \div DAY.                                                      *)
(*                                                                         *)
(* Every `await application.bot.send_message(...)` is a suspension point:  *)
(* a tick that reaches one is kept in `tasks` until the send completes;    *)
(* other ticks, the purge and the commands may run in between.             *)
(***************************************************************************)
EXTENDS Integers, Sequences, FiniteSets, Bags, TLC

\* ------------------------------------------------------------------------
\* Program constants
\* ------------------------------------------------------------------------
\* REMINDER_OFFSET = 10 (minutes)
REMINDER_OFFSET == 10
\* scheduler.add_job(..., 'interval', seconds=30)
TICK_SECONDS == 30
\* abs((now - notif).total_seconds()) < 30
WINDOW_SECONDS == 30
\* scheduler.add_job(clear_notified_events, 'cron', hour=0, minute=1):
\* second of the process-local day at which the purge runs
PURGE_SECOND == 60
\* seconds in a day (86400.0 in julian_to_datetime)
DAY == 86400

\* ------------------------------------------------------------------------
\* Bounds of the model
\* ------------------------------------------------------------------------
\* number of scheduler ticks of a behaviour
MaxTicks == 3
\* number of commands handled in a behaviour
MaxCommands == 2
\* number of command handlers suspended in a reply_text call at the same
\* time
MaxHandlers == 1
\* number of send_message calls that raise in a behaviour
MaxFailures == 2
\* number of restarts of the process in a behaviour
MaxRestarts == 2
\* number of times commands in a behaviour in which chats join one by one
MaxJoins == 3

\* ------------------------------------------------------------------------
\* Inputs
\* ------------------------------------------------------------------------
\* global_location = None
None == [name |-> "None"]
\* no command has replied yet / the purge has not run yet
NoReply == [cmd |-> "none", chat |-> 0, user |-> 0, name |-> "", msgs |-> <<>>,
            before |-> <<>>, state |-> "returned"]
NoPurge == [ran |-> FALSE, today |-> 0, before |-> {}]
Chats == {1, 2}
Users == {7, 8}
Names == {"ann", "bob"}
Kinds == {"sunrise", "sunset"}
\* the (chat, user, first name) of the updates that carry a times command:
\* a user under two names, a second user of the same chat, a second chat
TimesUpdates == {<<1, 7, "ann">>, <<1, 7, "bob">>, <<1, 8, "bob">>, <<2, 8, "bob">>}
\* the (chat, user) of the updates that carry a test command
TestUpdates == {<<1, 7>>, <<2, 8>>}
\* the (chat, user) of the updates that carry a location payload
LocationUpdates == {<<1, 7>>}

\* UTC offset of the zone the process runs in: date.today() and the cron
\* trigger use the process-local clock (here UTC+9).
ProcessTz == 32400

\* A location stands for the (lat, lon, tz) triple stored in
\* global_location together with the day of the year: tz is the UTC offset
\* of its zone in seconds, transit is J_transit as seconds after 0h UTC of
\* the date passed to calculate_sun_times (-lon/360 day plus the 0.0008
\* and equation-of-time terms), cosw is cos_omega before clamping, in
\* thousandths.
\* haslat tells whether the latitude is a number: a row of global_settings
\* whose lat column is NULL is loaded as lat = None.
\*   LocT: Arctic coast in the UTC+9 zone during polar night (cos_omega > 1)
\*   LocR: Antarctic Peninsula in the UTC-3 zone shortly before midnight sun
\*   LocN: the row of LocT with a NULL latitude
LocT == [name |-> "T", tz |-> 32400, transit |-> -31770, cosw |-> 1120, haslat |-> TRUE]
LocR == [name |-> "R", tz |-> -10800, transit |-> 15554, cosw |-> -956, haslat |-> TRUE]
LocN == [name |-> "N", tz |-> 32400, transit |-> -31770, cosw |-> 1120, haslat |-> FALSE]
\* the locations a location payload can set (latitude and longitude are
\* numbers)
Locations == {LocT, LocR}

\* Instant of the process start: the first tick runs TICK_SECONDS later.
\* The four phases put ticks 1 s before, at, 1 s after and 15 s after the
\* multiples of 30 s around the firing times of LocT (T0 + 30) and LocR
\* (T0 + 60, which is also the instant of the purge).
T0 == DAY + 54000
StartTimes == {T0 - 1, T0, T0 + 1, T0 + 15}
Horizon == T0 + 15 + MaxTicks * TICK_SECONDS

VARIABLES
    clock,                  \* instant of the last timer event (UTC seconds)
    nextTick,               \* next run of the interval job
    nextPurge,              \* next run of the cron job
    global_location,        \* None or a location
    subscribed_chats,       \* sequence of <<chat_id, subs>>, in insertion order;
                            \* subs is a function user_id -> first_name
    notified_events_global, \* set of keys <<chat_id, date, kind>>
    tasks,                  \* check_notifications tasks suspended in a send
    attempts,               \* log: bag of the send_message calls made by send_notification
    outbox,                 \* log: bag of the calls that delivered a message to the chat
    logged,                 \* log: logging.exception call sites reached
    lastReply,              \* log: the command handler that ran in the last step
                            \* (its update, the reply_text calls it has made so
                            \* far, the registry before the step, and whether it
                            \* has returned, is awaiting a reply or has raised)
    handlers,               \* command handlers suspended in a reply_text call
    nraised,                \* number of send_message calls that have raised
    ncommands,              \* number of commands handled so far by the process
    lastPurge,              \* log: the last purge (ledger before, keep date)
    started,                \* instant at which the running process started
    restarts                \* number of restarts so far

vars == <<clock, nextTick, nextPurge, global_location, subscribed_chats,
          notified_events_global, tasks, attempts, outbox, logged,
          lastReply, handlers, nraised, ncommands, lastPurge, started, restarts>>

\* ------------------------------------------------------------------------
\* Dates and the solar calculation
\* ------------------------------------------------------------------------
\* datetime.now(tz).date()
LocalDate(t, tz) == (t + tz) \div DAY

\* date.today()
ProcessDate(t) == (t + ProcessTz) \div DAY

\* cos_omega = max(min(cos_omega, 1), -1)
Clamp(c) == IF c > 1000 THEN 1000 ELSE IF c < -1000 THEN -1000 ELSE c

\* omega_deg/360.0 of a day, in seconds: math.acos on the values the
\* locations of the model produce
OmegaSeconds(c) ==
    CASE c = 1000 -> 0
      [] c = 500 -> 14400
      [] c = 0 -> 21600
      [] c = -500 -> 28800
      [] c = -956 -> 39106
      [] c = -1000 -> 43200

\* mutant of CalcRaises: calculate_sun_times swallows the error and returns
\* a pair of instants
CalcRaises_Never(loc) == FALSE

\* calculate_sun_times raises: math.radians(lat) (line 118) raises TypeError
\* when lat is None
CalcRaises(loc) == ~loc.haslat

\* calculate_sun_times(cur_date, lat, lon, tzinfo): J_transit is computed
\* from 0h UTC of cur_date; J_rise and J_set lie omega_deg/360 day before
\* and after it.  The result is a pair of instants.
calculate_sun_times(cur_date, loc) ==
    LET J_transit == cur_date * DAY + loc.transit
        omega == OmegaSeconds(Clamp(loc.cosw))
    IN  [sunrise |-> J_transit - omega, sunset |-> J_transit + omega]

\* sunrise_dt - timedelta(minutes=REMINDER_OFFSET)
NotifTime(event_dt) == event_dt - REMINDER_OFFSET * 60

Abs(x) == IF x < 0 THEN -x ELSE x

\* mutant of InWindow: a notification whose time has passed is caught up
InWindow_CatchUp(now, notif) == now - notif > -WINDOW_SECONDS

\* mutant of InWindow: the window reaches 60 s to either side of notif
InWindow_Wide(now, notif) == Abs(now - notif) < 2 * WINDOW_SECONDS

\* mutant of InWindow: the window starts at notif and is 60 s long
InWindow_HalfOpen(now, notif) == notif <= now /\ now < notif + 2 * WINDOW_SECONDS

\* abs((now - notif).total_seconds()) < 30
InWindow(now, notif) == Abs(now - notif) < WINDOW_SECONDS

\* ------------------------------------------------------------------------
\* The registry (subscribed_chats) as an insertion-ordered dict
\* ------------------------------------------------------------------------
ChatIds(reg) == {reg[i][1] : i \in 1..Len(reg)}

IndexOf(reg, c) == CHOOSE i \in 1..Len(reg) : reg[i][1] = c

SubsOf(reg, c) == reg[IndexOf(reg, c)][2]

EmptySubs == [u \in {} |-> "x"]

\* mutant of Subscribe: the subscription set of the chat is replaced by the
\* sender alone (subscribed_chats[chat_id] = {user.id: user.first_name})
Subscribe_Replace(reg, c, u, name) ==
    IF c \in ChatIds(reg)
    THEN [reg EXCEPT ![IndexOf(reg, c)] = <<c, [x \in {u} |-> name]>>]
    ELSE Append(reg, <<c, [x \in {u} |-> name]>>)

\* mutant of Subscribe: only a chat that is not yet known gets its sender
\* subscribed
Subscribe_NewChatOnly(reg, c, u, name) ==
    IF c \in ChatIds(reg) THEN reg ELSE Append(reg, <<c, [x \in {u} |-> name]>>)

\* if chat_id not in subscribed_chats: subscribed_chats[chat_id] = {}
\* subscribed_chats[chat_id][user.id] = user.first_name
Subscribe(reg, c, u, name) ==
    LET reg1 == IF c \in ChatIds(reg) THEN reg ELSE Append(reg, <<c, EmptySubs>>)
        i == IndexOf(reg1, c)
        old == reg1[i][2]
        new == [x \in DOMAIN old \cup {u} |-> IF x = u THEN name ELSE old[x]]
    IN  [reg1 EXCEPT ![i] = <<c, new>>]

\* ------------------------------------------------------------------------
\* The ledger (notified_events_global)
\* ------------------------------------------------------------------------
\* mutant of MarkSent: the ledger is replaced by a dict that holds the key
\* alone (notified_events_global = {key: True})
MarkSent_Reset(ledger, key, ok) == IF ok THEN {key} ELSE ledger

\* mutant of MarkSent: the key is marked whether or not the call raised
MarkSent_Always(ledger, key, ok) == ledger \cup {key}

\* notified_events_global[key] = True, reached only after a send_message
\* call returned without raising
MarkSent(ledger, key, ok) == IF ok THEN ledger \cup {key} ELSE ledger

\* mutant of PurgeLedger: notified_events_global.clear()
PurgeLedger_Clear(ledger, today) == {}

\* keys = [k for k in notified_events_global if k[1] != today]
\* for k in keys: del notified_events_global[k]
PurgeLedger(ledger, today) == {k \in ledger : k[2] = today}

\* the first run of the cron job after instant t
NextPurgeAfter(t) ==
    LET cand == ProcessDate(t) * DAY + PURGE_SECOND - ProcessTz
    IN  IF cand > t THEN cand ELSE cand + DAY

\* ------------------------------------------------------------------------
\* send_notification: what follows a send_message call that returned
\* (ok) or raised (~ok).  "plain": the except branch sends the stripped
\* text; "return": the function returns to the loop of check_notifications;
\* "raise": an exception leaves send_notification.
\* ------------------------------------------------------------------------
\* mutant of AfterSend: the fallback is tried again when it raises
AfterSend_RetryPlain(stage, ok) == IF ok THEN "return" ELSE "plain"

\* mutant of AfterSend: the fallback is not wrapped in try/except
AfterSend_Raise(stage, ok) ==
    IF ok THEN "return"
    ELSE IF stage = "html" THEN "plain"
    ELSE "raise"

AfterSend(stage, ok) ==
    IF ok THEN "return"
    ELSE IF stage = "html" THEN "plain"
    ELSE "return"

\* An except clause catches the exceptions that are instances of its
\* class; every exception a statement of the tick raises (TelegramError,
\* TypeError, RuntimeError) is an instance of Exception.
IsInstance(exc, cls) == cls = "Exception" \/ cls = exc

\* mutant of ExceptClauses: check_notifications without its outer try, run
\* as the job without job_wrapper
ExceptClauses_InnerOnly(site) ==
    IF site = "html" THEN <<[at |-> "send_notification: html", cls |-> "Exception"]>>
    ELSE IF site = "plain" THEN <<[at |-> "send_notification: plain", cls |-> "Exception"]>>
    ELSE IF site = "calc" THEN <<[at |-> "check_notifications: calc", cls |-> "Exception"]>>
    ELSE <<>>

\* The except clauses that enclose a statement of the tick, innermost
\* first.  "html": the first send_message call (line 216, except at 218);
\* "plain": the second one (line 223, except at 225); "calc": the call of
\* calculate_sun_times (line 248, except at 250); "loop": the other
\* statements of check_notifications, among them the for statement and the
\* calls of send_notification.  Around all of them lie the except clause of
\* check_notifications (line 270) and the one of job_wrapper (line 235).
ExceptClauses(site) ==
    LET outer == <<[at |-> "check_notifications", cls |-> "Exception"],
                   [at |-> "job_wrapper", cls |-> "Exception"]>>
    IN  IF site = "html"
        THEN <<[at |-> "send_notification: html", cls |-> "Exception"]>> \o outer
        ELSE IF site = "plain"
        THEN <<[at |-> "send_notification: plain", cls |-> "Exception"]>> \o outer
        ELSE IF site = "calc"
        THEN <<[at |-> "check_notifications: calc", cls |-> "Exception"]>> \o outer
        ELSE outer

\* The except clause that catches exception exc raised at site: the
\* innermost enclosing one whose class it is an instance of. "unhandled":
\* no clause catches it and the exception leaves the task of the tick.
CaughtBy(site, exc) ==
    LET chain == ExceptClauses(site)
        hits == {i \in 1..Len(chain) : IsInstance(exc, chain[i].cls)}
    IN  IF hits = {} THEN "unhandled"
        ELSE chain[CHOOSE i \in hits : \A j \in hits : i <= j].at

\* logging.exception call site reached when a send_message call raised
SendLogSite(stage) == <<CaughtBy(stage, "TelegramError"), "TelegramError">>

\* ------------------------------------------------------------------------
\* check_notifications: the loop over subscribed_chats.items()
\* ------------------------------------------------------------------------
\* (chat_id, now.date(), "sunrise") / (chat_id, now.date(), "sunset")
KeyOf(reg, t, i, kind) == <<reg[i][1], t.date, kind>>

EventOf(t, kind) == IF kind = "sunrise" THEN t.sunrise_dt ELSE t.sunset_dt

\* if key not in notified_events_global:
\*     if abs((now - notif).total_seconds()) < 30:
Due(ledger, reg, t, i, kind) ==
    /\ KeyOf(reg, t, i, kind) \notin ledger
    /\ InWindow(t.now, NotifTime(EventOf(t, kind)))

\* The dict iterator raises RuntimeError when the size of the dict differs
\* from its size when the iteration started.
IteratorRaises(reg, t) == Len(reg) # t.n0

\* Runs the loop from position (i, step) up to the next send_message call.
\* step is "sunrise" or "sunset" (the check about to be made for chat i) or
\* "next" (the iterator is about to be advanced).  m is the mentions value
\* computed when the loop entered chat i.
RECURSIVE RunLoop(_, _, _, _, _, _)
RunLoop(ledger, reg, t, i, step, m) ==
    IF step = "next"
    THEN IF IteratorRaises(reg, t) THEN [st |-> "error"]
         ELSE IF i + 1 > Len(reg) THEN [st |-> "done"]
         ELSE RunLoop(ledger, reg, t, i + 1, "sunrise", reg[i + 1][2])
    ELSE IF Due(ledger, reg, t, i, step)
         THEN [st |-> "send", idx |-> i, kind |-> step, mentions |-> m]
         ELSE RunLoop(ledger, reg, t, i, IF step = "sunrise" THEN "sunset" ELSE "next", m)

\* the task suspended in the send_message call the loop arrived at
Suspended(t, r) ==
    [now |-> t.now, date |-> t.date, sunrise_dt |-> t.sunrise_dt,
     sunset_dt |-> t.sunset_dt, n0 |-> t.n0,
     idx |-> r.idx, kind |-> r.kind, stage |-> "html", mentions |-> r.mentions]

\* the send_message call a suspended task is waiting for
CallOf(reg, t) ==
    [key |-> KeyOf(reg, t, t.idx, t.kind), now |-> t.now,
     event |-> EventOf(t, t.kind), stage |-> t.stage, mentions |-> t.mentions]

\* tasks and attempts once the loop has run to result r
LoopEffect(others, t, r) ==
    IF r.st = "send"
    THEN /\ tasks' = others \cup {Suspended(t, r)}
         /\ attempts' = attempts (+) SetToBag({CallOf(subscribed_chats, Suspended(t, r))})
    ELSE /\ tasks' = others
         /\ UNCHANGED attempts

\* except Exception as e: logging.exception("Unhandled exception in
\* check_notifications: %s", e)
LoopLogged(base, r) ==
    IF r.st = "error" THEN base \cup {<<CaughtBy("loop", "RuntimeError"), "RuntimeError">>} ELSE base

\* the except clause around the call of calculate_sun_times in
\* check_notifications: logging.exception(...); return
CalcLogSite == <<CaughtBy("calc", "TypeError"), "TypeError">>
\* the logging.exception calls of times (line 194) and of test (line 313)
TimesLogSite == <<"times: calc", "TypeError">>
TestLogSite == <<"test: calc", "TypeError">>

\* ------------------------------------------------------------------------
\* Initial state: main() has run init_db() and start_scheduler()
\* ------------------------------------------------------------------------
\* the state after main() has started, with the row of global_settings
\* (or None when there is no row) among `rows`
InitWith(rows) ==
    /\ clock \in StartTimes
    /\ nextTick = clock + TICK_SECONDS
    /\ nextPurge = NextPurgeAfter(clock)
    /\ global_location \in rows
    /\ subscribed_chats = <<>>
    /\ notified_events_global = {}
    /\ tasks = {}
    /\ attempts = EmptyBag
    /\ outbox = EmptyBag
    /\ logged = {}
    /\ lastReply = NoReply
    /\ handlers = {}
    /\ nraised = 0
    /\ ncommands = 0
    /\ lastPurge = NoPurge
    /\ started = clock
    /\ restarts = 0

\* no row, or a row saved by save_global_location
Init == InitWith(Locations \cup {None})

\* ------------------------------------------------------------------------
\* The interval job: job_wrapper -> check_notifications, run up to its
\* first send_message call (or to its end when nothing is due)
\* ------------------------------------------------------------------------
\* the locals of check_notifications before the loop
TickLocals(now, loc, reg) ==
    LET d == LocalDate(now, loc.tz)
        sun == calculate_sun_times(d, loc)
    IN  [now |-> now, date |-> d, sunrise_dt |-> sun.sunrise,
         sunset_dt |-> sun.sunset, n0 |-> Len(reg)]

\* the interval trigger: the run after the one at t
NextRun(t) == t + TICK_SECONDS

TickStart ==
    /\ nextTick <= Horizon
    /\ nextTick <= nextPurge
    /\ clock' = nextTick
    /\ nextTick' = NextRun(nextTick)
    /\ IF global_location = None
       THEN UNCHANGED <<tasks, attempts, logged>>
       ELSE IF CalcRaises(global_location)
       THEN /\ logged' = logged \cup {CalcLogSite}
            /\ UNCHANGED <<tasks, attempts>>
       ELSE LET t == TickLocals(nextTick, global_location, subscribed_chats)
                r == RunLoop(notified_events_global, subscribed_chats, t, 0, "next", <<>>)
            IN  /\ LoopEffect(tasks, t, r)
                /\ logged' = LoopLogged(logged, r)
    /\ lastReply' = NoReply
    /\ UNCHANGED <<nextPurge, global_location, subscribed_chats,
                   notified_events_global, outbox, ncommands, lastPurge,
                   started, restarts, handlers, nraised>>

\* ------------------------------------------------------------------------
\* A send_message call of a suspended task returns (ok) or raises (~ok);
\* the task runs on to its next send_message call or to its end
\* ------------------------------------------------------------------------
SendDone(t, ok) ==
    LET call == CallOf(subscribed_chats, t)
        next == AfterSend(t.stage, ok)
        ledger1 == MarkSent(notified_events_global, call.key, ok)
        logged1 == IF ok THEN logged ELSE logged \cup {SendLogSite(t.stage)}
        others == tasks \ {t}
    IN  /\ t \in tasks
        /\ ok \/ nraised < MaxFailures
        /\ nraised' = IF ok THEN nraised ELSE nraised + 1
        /\ notified_events_global' = ledger1
        /\ outbox' = IF ok THEN outbox (+) SetToBag({call}) ELSE outbox
        /\ CASE next = "plain" ->
                  LET t1 == [t EXCEPT !.stage = "plain"]
                  IN  /\ tasks' = others \cup {t1}
                      /\ attempts' = attempts (+) SetToBag({CallOf(subscribed_chats, t1)})
                      /\ logged' = logged1
             [] next = "return" ->
                  LET r == RunLoop(ledger1, subscribed_chats, t, t.idx,
                                   IF t.kind = "sunrise" THEN "sunset" ELSE "next",
                                   t.mentions)
                  IN  /\ LoopEffect(others, t, r)
                      /\ logged' = LoopLogged(logged1, r)
             [] next = "raise" ->
                  /\ tasks' = others
                  /\ UNCHANGED attempts
                  /\ logged' = logged1 \cup {<<CaughtBy("loop", "TelegramError"), "TelegramError">>}
        /\ lastReply' = NoReply
        /\ UNCHANGED <<clock, nextTick, nextPurge, global_location,
                       subscribed_chats, ncommands, lastPurge, started, restarts,
                       handlers>>

\* ------------------------------------------------------------------------
\* The cron job: clear_notified_events
\* ------------------------------------------------------------------------
Purge ==
    /\ nextPurge <= Horizon
    /\ nextPurge <= nextTick
    /\ clock' = nextPurge
    /\ nextPurge' = nextPurge + DAY
    /\ notified_events_global' = PurgeLedger(notified_events_global, ProcessDate(nextPurge))
    /\ lastPurge' = [ran |-> TRUE, today |-> ProcessDate(nextPurge), before |-> notified_events_global]
    /\ lastReply' = NoReply
    /\ UNCHANGED <<nextTick, global_location, subscribed_chats, tasks,
                   attempts, outbox, logged, ncommands, started, restarts,
                   handlers, nraised>>

\* ------------------------------------------------------------------------
\* Commands
\* ------------------------------------------------------------------------
\* mutant of TimesRegistry: the user is subscribed before the location is
\* looked at
TimesRegistry_Always(loc, reg, c, u, name) == Subscribe(reg, c, u, name)

\* times, lines 181-183, 190-196 and 201-205: without a location, and when
\* the calculation raises, the handler returns before it touches
\* subscribed_chats
TimesRegistry(loc, reg, c, u, name) ==
    IF loc = None THEN reg
    ELSE IF CalcRaises(loc) THEN reg
    ELSE Subscribe(reg, c, u, name)

\* the reply_text calls of a command
TimesReply(loc) ==
    IF loc = None THEN <<"prompt">>
    ELSE IF CalcRaises(loc) THEN <<"calc_error">>
    ELSE <<"times">>

\* mutant of TestReply: the synthetic sunset notification is not sent
TestReply_SunriseOnly(loc) ==
    IF loc = None THEN <<"prompt">>
    ELSE IF CalcRaises(loc) THEN <<"calc_error">>
    ELSE <<"test_times", "test_sunrise">>

\* test, lines 301-303 and 322-324: the line with the two times, then the
\* synthetic sunrise and the synthetic sunset notification
TestReply(loc) ==
    IF loc = None THEN <<"prompt">>
    ELSE IF CalcRaises(loc) THEN <<"calc_error">>
    ELSE <<"test_times", "test_sunrise", "test_sunset">>

\* times, line 194, and test, line 313: the except clause around the
\* calculation calls logging.exception before it replies
CommandLogged(log, loc, site) ==
    IF loc # None /\ CalcRaises(loc) THEN log \cup {site} ELSE log

\* A handler suspended in a reply_text call: the number of its command in
\* the process, its update, the location it has read (line 185, 305), the
\* texts of its replies and the number of reply_text calls it has made
Handler(no, cmd, c, u, name, loc, msgs) ==
    [no |-> no, cmd |-> cmd, chat |-> c, user |-> u, name |-> name,
     loc |-> loc, msgs |-> msgs, n |-> 1]

\* the handler of the times command, in a behaviour of at most `budget`
\* commands: it runs up to its reply_text call (line 182, 195 or 208) and
\* is suspended there
TimesWithin(budget, c, u, name) ==
    LET msgs == TimesReply(global_location)
    IN  /\ ncommands < budget
        /\ Cardinality(handlers) < MaxHandlers
        /\ ncommands' = ncommands + 1
        /\ subscribed_chats' = TimesRegistry(global_location, subscribed_chats, c, u, name)
        /\ logged' = CommandLogged(logged, global_location, TimesLogSite)
        /\ handlers' = handlers \cup
                          {Handler(ncommands, "times", c, u, name, global_location, msgs)}
        /\ lastReply' = [cmd |-> "times", chat |-> c, user |-> u, name |-> name,
                         msgs |-> msgs,
                         before |-> subscribed_chats, state |-> "awaiting"]
        /\ UNCHANGED <<clock, nextTick, nextPurge, global_location,
                       notified_events_global, tasks, attempts, outbox,
                       lastPurge, started, restarts, nraised>>

Times(c, u, name) == TimesWithin(MaxCommands, c, u, name)

\* test, lines 300-322: the handler runs up to its first reply_text call
\* (line 302, 314 or 322) and is suspended there.  The replies go to the
\* invoking chat through reply_text; neither send_notification nor the
\* ledger is involved.  The texts of all replies are formatted before the
\* first call (lines 316-321).
Test(c, u) ==
    LET msgs == TestReply(global_location)
    IN  /\ ncommands < MaxCommands
        /\ Cardinality(handlers) < MaxHandlers
        /\ ncommands' = ncommands + 1
        /\ handlers' = handlers \cup
                          {Handler(ncommands, "test", c, u, "", global_location, msgs)}
        /\ logged' = CommandLogged(logged, global_location, TestLogSite)
        /\ lastReply' = [cmd |-> "test", chat |-> c, user |-> u, name |-> "",
                         msgs |-> SubSeq(msgs, 1, 1),
                         before |-> subscribed_chats, state |-> "awaiting"]
        /\ UNCHANGED <<clock, nextTick, nextPurge, global_location, subscribed_chats,
                       notified_events_global, tasks, attempts, outbox,
                       lastPurge, started, restarts, nraised>>

\* location_handler, lines 167-176: a location payload replaces
\* global_location and the row of the database, then the handler is
\* suspended in its reply_text call
LocationHandler(c, u, loc) ==
    /\ ncommands < MaxCommands
    /\ Cardinality(handlers) < MaxHandlers
    /\ ncommands' = ncommands + 1
    /\ global_location' = loc
    /\ handlers' = handlers \cup
                      {Handler(ncommands, "location", c, u, "", loc, <<"location_ok">>)}
    /\ lastReply' = [cmd |-> "location", chat |-> c, user |-> u, name |-> "",
                     msgs |-> <<"location_ok">>,
                     before |-> subscribed_chats, state |-> "awaiting"]
    /\ UNCHANGED <<clock, nextTick, nextPurge, subscribed_chats,
                   notified_events_global, tasks, attempts, outbox, logged,
                   lastPurge, started, restarts, nraised>>

\* The reply_text call a suspended handler awaits returns (ok) or raises
\* (~ok).  When it returns the handler makes its next reply_text call and is
\* suspended in it, or, after its last reply, returns; when it raises the
\* exception leaves the handler (no try encloses the call) and the
\* remaining replies are not made.
ReplyDone(h, ok) ==
    LET others == handlers \ {h}
        more == ok /\ h.n < Len(h.msgs)
        n1 == IF more THEN h.n + 1 ELSE h.n
    IN  /\ h \in handlers
        /\ handlers' = IF more THEN others \cup {[h EXCEPT !.n = n1]} ELSE others
        /\ lastReply' = [cmd |-> h.cmd, chat |-> h.chat, user |-> h.user,
                         name |-> h.name,
                         msgs |-> SubSeq(h.msgs, 1, n1),
                         before |-> subscribed_chats,
                         state |-> IF ~ok THEN "raised"
                                   ELSE IF more THEN "awaiting" ELSE "returned"]
        /\ UNCHANGED <<clock, nextTick, nextPurge, global_location, subscribed_chats,
                       notified_events_global, tasks, attempts, outbox, logged,
                       ncommands, lastPurge, started, restarts, nraised>>

\* times, lines 182, 195 and 208
TimesReplyDone(h, ok) == h.cmd = "times" /\ ReplyDone(h, ok)

\* test, lines 302, 314 and 322-324
TestReplyDone(h, ok) == h.cmd = "test" /\ ReplyDone(h, ok)

\* location_handler, line 176
LocationReplyDone(h, ok) == h.cmd = "location" /\ ReplyDone(h, ok)

Next ==
    \/ TickStart
    \/ \E t \in tasks, ok \in BOOLEAN : SendDone(t, ok)
    \/ Purge
    \/ \E x \in TimesUpdates : Times(x[1], x[2], x[3])
    \/ \E h \in handlers, ok \in BOOLEAN : TimesReplyDone(h, ok)
    \/ \E x \in TestUpdates : Test(x[1], x[2])
    \/ \E h \in handlers, ok \in BOOLEAN : TestReplyDone(h, ok)
    \/ \E x \in LocationUpdates, loc \in Locations : LocationHandler(x[1], x[2], loc)
    \/ \E h \in handlers, ok \in BOOLEAN : LocationReplyDone(h, ok)

Spec == Init /\ [][Next]_vars

\* ------------------------------------------------------------------------
\* Restart of the process
\* ------------------------------------------------------------------------
\* seconds between the last timer event and the start of the new process
RestartDelays == {0, 1}

\* init_db(): the location saved by save_global_location is loaded again;
\* a process that never saved one starts with None
LoadedLocation(saved) == saved

\* The process is stopped and main() runs again: the module-level dicts
\* subscribed_chats and notified_events_global are empty, the tasks of the
\* old process and its suspended handlers are gone, global_location is read from the database and the
\* scheduler starts anew (first tick TICK_SECONDS after the start).  The
\* messages already delivered stay in the chats.
Restart(d) ==
    /\ restarts < MaxRestarts
    /\ clock + d <= nextTick
    /\ clock + d <= nextPurge
    /\ clock + d <= Horizon
    /\ restarts' = restarts + 1
    /\ clock' = clock + d
    /\ started' = clock + d
    /\ nextTick' = NextRun(clock + d)
    /\ nextPurge' = NextPurgeAfter(clock + d)
    /\ global_location' = LoadedLocation(global_location)
    /\ subscribed_chats' = <<>>
    /\ notified_events_global' = {}
    /\ tasks' = {}
    /\ handlers' = {}
    /\ ncommands' = 0
    /\ lastReply' = NoReply
    /\ UNCHANGED <<attempts, outbox, logged, lastPurge, nraised>>

\* The runs on a database row without latitude: init_db() loads it as it
\* is, and every call of calculate_sun_times raises until a location
\* payload replaces it.
InitCalc == InitWith({LocN})

SpecCalc == InitCalc /\ [][Next]_vars

\* The runs in which up to three chats subscribe one after the other while
\* the scheduler ticks at the location of the polar night; the process has
\* started 30 s before the firing time, so that one tick falls into the
\* window.
JoinUpdates == {<<1, 7, "ann">>, <<2, 8, "bob">>, <<3, 7, "ann">>}

InitJoin ==
    /\ InitWith({LocT})
    /\ clock = T0

NextJoin ==
    \/ TickStart
    \/ \E t \in tasks, ok \in BOOLEAN : SendDone(t, ok)
    \/ Purge
    \/ \E x \in JoinUpdates : TimesWithin(MaxJoins, x[1], x[2], x[3])
    \/ \E h \in handlers, ok \in BOOLEAN : TimesReplyDone(h, ok)

SpecJoin == InitJoin /\ [][NextJoin]_vars

\* The runs with restarts: a location is saved in the database, and the
\* updates handled are the times commands by which a chat subscribes again
\* after a restart.
InitRestart ==
    /\ Init
    /\ global_location # None

ResubscribeUpdates == {<<1, 7, "ann">>}

NextRestart ==
    \/ TickStart
    \/ \E t \in tasks, ok \in BOOLEAN : SendDone(t, ok)
    \/ Purge
    \/ \E x \in ResubscribeUpdates : Times(x[1], x[2], x[3])
    \/ \E h \in handlers, ok \in BOOLEAN : TimesReplyDone(h, ok)
    \/ \E d \in RestartDelays : Restart(d)

SpecRestart == InitRestart /\ [][NextRestart]_vars

\* ------------------------------------------------------------------------
\* Views of the logs
\* ------------------------------------------------------------------------
\* number of messages that reached the chat for a key
Deliveries(key) ==
    BagCardinality([c \in {x \in BagToSet(outbox) : x.key = key} |-> outbox[c]])

\* number of send_message calls made for a key by the tick that ran at now
CallsBy(log, key, now, stage) ==
    BagCardinality([c \in {x \in BagToSet(log) :
                             x.key = key /\ x.now = now /\ x.stage = stage}
                    |-> log[c]])

\* ------------------------------------------------------------------------
\* C1: for every key (chat, date, kind), at most one delivery of the
\* notification happens: once a tick has delivered it to the chat for the
\* date, no later tick of that date delivers it again.
\* ------------------------------------------------------------------------
C1_AtMostOneDeliveryPerKey ==
    \A c \in BagToSet(outbox) : Deliveries(c.key) <= 1

\* ------------------------------------------------------------------------
\* Firing of a tick, stated on the steps of the interval job
\* ------------------------------------------------------------------------
\* the step is a run of the interval job with a location configured
IsTickStep == nextTick' # nextTick /\ global_location # None

\* instant of the event of the given kind on the location's date at `now`
EventAt(now, loc, kind) ==
    LET sun == calculate_sun_times(LocalDate(now, loc.tz), loc)
    IN  IF kind = "sunrise" THEN sun.sunrise ELSE sun.sunset

\* some subscribed chat has a key of the location's date that is not in the
\* ledger and whose event satisfies W(now, event)
PendingIn(W(_, _), now, loc) ==
    \E i \in 1..Len(subscribed_chats), k \in Kinds :
        /\ <<subscribed_chats[i][1], LocalDate(now, loc.tz), k>> \notin notified_events_global
        /\ W(now, EventAt(now, loc, k))

\* [event - 10min, event - 10min + 60s)
HalfOpenWindow(now, event) ==
    /\ event - 10 * 60 <= now
    /\ now < event - 10 * 60 + 60

\* (event - 10min - 30s, event - 10min + 30s)
SymmetricWindow(now, event) ==
    /\ event - 10 * 60 - 30 < now
    /\ now < event - 10 * 60 + 30

\* C2 as stated: with offset 10 minutes a tick fires (makes a send_message
\* call) exactly when some pending key has `now` in the half-open window
\* [event - 10min, event - 10min + 60s); so a tick 1 s before the window
\* does not fire and a tick 59 s into it does.
C2_FiresInHalfOpenWindow ==
    [][IsTickStep =>
         (attempts' # attempts <=> PendingIn(HalfOpenWindow, nextTick, global_location))]_vars

\* C2 amended: a tick fires exactly when some key that is not in the ledger
\* has `now` strictly within 30 s of event - 10min, i.e. in the open window
\* (event - 10min - 30s, event - 10min + 30s); a tick at event - 10min - 1s
\* fires, a tick at event - 10min + 59s does not, and no tick fires for a
\* key that is in the ledger.
C2_FiresInSymmetricWindow ==
    [][IsTickStep =>
         (attempts' # attempts <=> PendingIn(SymmetricWindow, nextTick, global_location))]_vars

\* a tick ran 1 s before event - 10min and fired; the tick 60 s later, at
\* event - 10min + 59s, found a key of the same event pending and did not
\* fire
C2_Witness ==
    \E c \in BagToSet(attempts) :
        /\ c.now = c.event - 10 * 60 - 1
        /\ clock = c.event - 10 * 60 + 59
        /\ nextTick = clock + TICK_SECONDS
        /\ global_location # None
        /\ \E i \in 1..Len(subscribed_chats), k \in Kinds :
              /\ EventAt(clock, global_location, k) = c.event
              /\ <<subscribed_chats[i][1], LocalDate(clock, global_location.tz), k>>
                    \notin notified_events_global
        /\ \A x \in BagToSet(attempts) : x.now # clock

\* ------------------------------------------------------------------------
\* send_notification, stated on the steps in which a send_message call of a
\* task t returns or raises (t leaves `tasks` or changes its stage)
\* ------------------------------------------------------------------------
\* the call is awaited by a suspended task
Pending(c) == \E t \in tasks : CallOf(subscribed_chats, t) = c

\* the call was made and raised
Failed(c) == BagIn(c, attempts) /\ ~BagIn(c, outbox) /\ ~Pending(c)

\* C3: send_notification adds the key to the ledger if and only if a send
\* to the chat succeeded; when the HTML send and the fallback both fail the
\* ledger is unchanged and no exception reaches check_notifications.
C3_MarkedIffDelivered ==
    [][\A t \in tasks \ tasks' :
          LET key == CallOf(subscribed_chats, t).key
          IN  /\ notified_events_global' =
                    IF outbox' # outbox
                    THEN notified_events_global \cup {key}
                    ELSE notified_events_global
              /\ \A e \in logged' : e[2] = "TelegramError" =>
                     e[1] \in {"send_notification: html", "send_notification: plain"}]_vars

\* the HTML send and the fallback of one send_notification call have both
\* raised and the key is not in the ledger
C3_Witness ==
    \E c \in BagToSet(attempts) :
        /\ c.stage = "plain"
        /\ Failed(c)
        /\ Failed([c EXCEPT !.stage = "html"])
        /\ c.key \notin notified_events_global
        /\ tasks = {}

\* C4: when the HTML send of a send_notification call fails and the
\* fallback succeeds, that call has made the fallback send exactly once,
\* the chat has received exactly one message from it, and the key is in the
\* ledger.
C4_FallbackOnce ==
    [][\A t \in tasks \ tasks' :
          (t.stage = "plain" /\ outbox' # outbox) =>
              LET c == CallOf(subscribed_chats, t)
              IN  /\ CallsBy(attempts', c.key, c.now, "html") = 1
                  /\ CallsBy(attempts', c.key, c.now, "plain") = 1
                  /\ CallsBy(outbox', c.key, c.now, "html") = 0
                  /\ CallsBy(outbox', c.key, c.now, "plain") = 1
                  /\ c.key \in notified_events_global']_vars

\* a fallback send has delivered the message after the HTML send raised
C4_Witness ==
    \E c \in BagToSet(outbox) :
        /\ c.stage = "plain"
        /\ Failed([c EXCEPT !.stage = "html"])
        /\ c.key \in notified_events_global

\* ------------------------------------------------------------------------
\* The purge, stated on the steps of the cron job
\* ------------------------------------------------------------------------
IsPurgeStep == lastPurge' # lastPurge

\* C5: after the purge has run with keep date D, no key whose date differs
\* from D is in the ledger and every key with date D that was in the ledger
\* before is still in it.
C5_PurgeKeepsOnlyD ==
    [][IsPurgeStep =>
         LET D == lastPurge'.today
         IN  /\ \A k \in notified_events_global' : k[2] = D
             /\ \A k \in notified_events_global : k[2] = D => k \in notified_events_global']_vars

\* the purge has just run on a ledger that held keys of date D and keys of
\* another date
C5_Witness ==
    /\ lastPurge.ran
    /\ nextPurge = clock + DAY
    /\ \E k \in lastPurge.before : k[2] # lastPurge.today
    /\ \E k \in lastPurge.before : k[2] = lastPurge.today /\ k \in notified_events_global
    /\ \A k \in notified_events_global : k[2] = lastPurge.today

\* C6: the daily purge never removes a ledger entry whose date is the
\* current date at the configured location.
C6_PurgeKeepsLocationDay ==
    [][(IsPurgeStep /\ global_location # None) =>
         \A k \in notified_events_global :
             k[2] = LocalDate(nextPurge, global_location.tz) => k \in notified_events_global']_vars

\* ------------------------------------------------------------------------
\* The loop after a delivery failure
\* ------------------------------------------------------------------------
\* position (j, k) comes after position (i, kind) in the order of the loop
After(i, kind, j, k) == j > i \/ (j = i /\ kind = "sunrise" /\ k = "sunset")

\* position (j, k) comes no later than position (j2, k2)
NotLater(j, k, j2, k2) == j < j2 \/ (j = j2 /\ (k = "sunrise" \/ k2 = "sunset"))

\* the positions after the one of task t that are due and not in the
\* ledger; a chat after the current one is reached only if the registry has
\* kept the size it had when the iteration started
StillDue(t) ==
    {p \in (1..Len(subscribed_chats)) \X Kinds :
        /\ After(t.idx, t.kind, p[1], p[2])
        /\ p[1] > t.idx => Len(subscribed_chats) = t.n0
        /\ <<subscribed_chats[p[1]][1], t.date, p[2]>> \notin notified_events_global
        /\ SymmetricWindow(t.now, EventOf(t, p[2]))}

\* C7: within one tick, when the HTML send and the fallback for one chat
\* have both failed, the tick goes on: it attempts the delivery that is next
\* in its order among those due and not in the ledger, be it the other
\* event kind of the same chat or another subscribed chat.
C7_FailureDoesNotBlock ==
    [][\A t \in tasks \ tasks' :
          (t.stage = "plain" /\ outbox' = outbox /\ StillDue(t) # {}) =>
              \E n \in tasks' \ tasks :
                  /\ n.now = t.now
                  /\ n.stage = "html"
                  /\ <<n.idx, n.kind>> \in StillDue(t)
                  /\ \A p \in StillDue(t) : NotLater(n.idx, n.kind, p[1], p[2])
                  /\ attempts' = attempts (+) SetToBag({CallOf(subscribed_chats, n)})]_vars

\* a tick whose sends to one chat both failed for the sunrise has gone on to
\* attempt the sunset for that chat and a delivery to another chat
C7_Witness ==
    \E c \in BagToSet(attempts), d \in BagToSet(attempts), e \in BagToSet(attempts) :
        /\ c.stage = "plain" /\ Failed(c)
        /\ c.key[3] = "sunrise"
        /\ d.now = c.now /\ d.key[1] = c.key[1] /\ d.key[3] = "sunset"
        /\ e.now = c.now /\ e.key[1] # c.key[1]

\* ------------------------------------------------------------------------
\* The scheduler keeps running
\* ------------------------------------------------------------------------
\* The process starts 15 s after T0, on no row, on the row of LocT or on
\* the row without latitude on which the calculation raises.
InitLive ==
    /\ InitWith({None, LocT, LocN})
    /\ clock = T0 + 15

\* The interval and the cron trigger fire when they are due.  Nothing is
\* assumed about the send_message and reply_text calls: a call may never
\* end, and the tick or the handler that awaits it then stays suspended for
\* ever.
Fairness ==
    /\ WF_vars(TickStart)
    /\ WF_vars(Purge)

SpecLive == InitLive /\ [][Next]_vars /\ Fairness

\* the instants at which the interval job is due in these runs
LiveTicks == {T0 + 15 + k * TICK_SECONDS : k \in 1..MaxTicks}

\* C8: no exception raised inside a tick (by the calculation, by the loop
\* or by a send_message call) leaves job_wrapper, and whatever the outcome
\* of the ticks before (an exception caught and logged, a send that failed,
\* a send_message call that has not ended) every tick that is due is
\* eventually run, up to the last tick of the horizon.
C8_NextTickRuns ==
    /\ [](\A e \in logged : e[1] # "unhandled")
    /\ \A n \in LiveTicks : (nextTick = n) ~> (nextTick = NextRun(n))

\* the first tick ended in the except clause around the calculation, a
\* later one had both send_message calls of a notification raise, and the
\* last tick of the horizon has run
C8_Witness ==
    /\ CalcLogSite \in logged
    /\ SendLogSite("plain") \in logged
    /\ nextTick > Horizon

\* ------------------------------------------------------------------------
\* Commands and ticks without a location
\* ------------------------------------------------------------------------
IsCommandStep(cmd) == ncommands' # ncommands /\ lastReply'.cmd = cmd

\* C9: while no location is configured, a tick sends no message and leaves
\* the ledger, the registry and the location unchanged, and the times and
\* test commands only reply with the set-location prompt.
C9_NoLocationNoOp ==
    [][global_location = None =>
         /\ nextTick' # nextTick =>
               UNCHANGED <<notified_events_global, subscribed_chats,
                           global_location, attempts, outbox, tasks>>
         /\ (IsCommandStep("times") \/ IsCommandStep("test")) =>
               /\ lastReply'.msgs = <<"prompt">>
               /\ UNCHANGED <<notified_events_global, subscribed_chats,
                              global_location, attempts, outbox, tasks>>]_vars

\* without a location, ticks have run and a times command has been answered
\* with the prompt: nothing was sent and nobody is subscribed
C9_Witness ==
    /\ global_location = None
    /\ clock > T0 + TICK_SECONDS
    /\ lastReply.cmd = "times"
    /\ lastReply.msgs = <<"prompt">>
    /\ subscribed_chats = <<>>
    /\ attempts = EmptyBag

\* the sender of the last command is subscribed in the chat it was sent in
SenderSubscribed(reg, reply) ==
    /\ reply.chat \in ChatIds(reg)
    /\ reply.user \in DOMAIN SubsOf(reg, reply.chat)

\* C10 as stated: after every times command issued by user u in chat c, u
\* is a member of the subscription set of c, in whatever state the command
\* is issued.
C10_TimesAlwaysSubscribes ==
    [][IsCommandStep("times") => SenderSubscribed(subscribed_chats', lastReply')]_vars

\* C10 amended: after every times command issued by user u in chat c while
\* a location is configured, u is a member of the subscription set of c.
C10_TimesSubscribesWithLocation ==
    [][(IsCommandStep("times") /\ global_location # None /\ ~CalcRaises(global_location)) =>
          SenderSubscribed(subscribed_chats', lastReply')]_vars

\* a times command of a user who was not yet subscribed in a chat that was
\* already known has been handled: the user is a member now
C10_Witness ==
    /\ lastReply.cmd = "times"
    /\ lastReply.msgs = <<"times">>
    /\ SenderSubscribed(subscribed_chats, lastReply)
    /\ Cardinality(DOMAIN SubsOf(subscribed_chats, lastReply.chat)) = 2

\* ------------------------------------------------------------------------
\* The registry under the times command
\* ------------------------------------------------------------------------
\* user u is subscribed in chat c under the given name
Member(reg, c, u, name) ==
    /\ c \in ChatIds(reg)
    /\ u \in DOMAIN SubsOf(reg, c)
    /\ SubsOf(reg, c)[u] = name

\* reg2 is reg after the upsert of (c, u, name): u is in c under that name,
\* the other members of c and the other chats are as before, and a chat is
\* added (at the end) only when c was not known
Upserted(reg, reg2, c, u, name) ==
    /\ Member(reg2, c, u, name)
    /\ Len(reg2) = IF c \in ChatIds(reg) THEN Len(reg) ELSE Len(reg) + 1
    /\ \A i \in 1..Len(reg) : reg2[i][1] = reg[i][1]
    /\ \A i \in 1..Len(reg) : reg[i][1] # c => reg2[i] = reg[i]
    /\ DOMAIN SubsOf(reg2, c) =
          (IF c \in ChatIds(reg) THEN DOMAIN SubsOf(reg, c) ELSE {}) \cup {u}
    /\ c \in ChatIds(reg) =>
          \A x \in DOMAIN SubsOf(reg, c) \ {u} : SubsOf(reg2, c)[x] = SubsOf(reg, c)[x]

\* no chat and no member of a chat of reg is missing in reg2
NothingRemoved(reg, reg2) ==
    /\ Len(reg2) >= Len(reg)
    /\ \A i \in 1..Len(reg) :
          /\ reg2[i][1] = reg[i][1]
          /\ DOMAIN reg[i][2] \subseteq DOMAIN reg2[i][2]

\* C11: subscribing is an idempotent upsert: a times command (with a
\* location configured) of a user who is already subscribed in the chat
\* under the same name leaves the registry as it is; under another name the
\* last name wins and the user appears once; the other members and the
\* other chats are unchanged; and no step of the program removes a member
\* or a chat from the registry.
C11_IdempotentUpsert ==
    [][/\ NothingRemoved(subscribed_chats, subscribed_chats')
       /\ (IsCommandStep("times") /\ global_location # None) =>
             LET r == lastReply'
             IN  /\ Upserted(subscribed_chats, subscribed_chats', r.chat, r.user, r.name)
                 /\ Member(subscribed_chats, r.chat, r.user, r.name) =>
                       subscribed_chats' = subscribed_chats]_vars

\* a user who was subscribed under one name has issued times again under
\* another name: the chat has that one member, under the new name
C11_Witness ==
    /\ lastReply.cmd = "times"
    /\ lastReply.msgs = <<"times">>
    /\ lastReply.chat \in ChatIds(lastReply.before)
    /\ lastReply.user \in DOMAIN SubsOf(lastReply.before, lastReply.chat)
    /\ SubsOf(lastReply.before, lastReply.chat)[lastReply.user] # lastReply.name
    /\ SubsOf(subscribed_chats, lastReply.chat) = [x \in {lastReply.user} |-> lastReply.name]

\* ------------------------------------------------------------------------
\* The test command
\* ------------------------------------------------------------------------
\* number of occurrences of x in the sequence
Count(seq, x) == Cardinality({i \in 1..Len(seq) : seq[i] = x})

\* a step of a test handler: the command is taken up, or a suspended
\* handler goes on after one of its reply_text calls
IsTestStep == lastReply'.cmd = "test" /\ (ncommands' # ncommands \/ handlers' # handlers)

\* C12: the test command bypasses the ledger.  No step of a test handler
\* changes the ledger, the registry, the suspended ticks or the location,
\* and none makes or completes a send_message call; its replies go to the
\* chat of its update.  A handler that was taken up with a location set
\* and whose replies have all returned has sent one synthetic sunrise and
\* one synthetic sunset notification, whether or not the ledger holds the
\* keys of the day for that chat, and no handler sends either of them twice.
C12_TestBypassesLedger ==
    [][IsTestStep =>
          /\ UNCHANGED <<notified_events_global, subscribed_chats, tasks,
                         attempts, outbox, global_location>>
          /\ Count(lastReply'.msgs, "test_sunrise") <= 1
          /\ Count(lastReply'.msgs, "test_sunset") <= 1
          /\ IsCommandStep("test") => lastReply'.state = "awaiting"
          /\ ~IsCommandStep("test") =>
                \E h \in handlers \ handlers' :
                    /\ h.chat = lastReply'.chat
                    /\ (/\ lastReply'.state = "returned"
                        /\ h.loc # None
                        /\ ~CalcRaises(h.loc)) =>
                           (/\ Count(lastReply'.msgs, "test_sunrise") = 1
                            /\ Count(lastReply'.msgs, "test_sunset") = 1)]_vars

\* a test handler has made all its replies in a chat for which the ledger
\* holds both keys of the location's day
C12_Witness ==
    /\ lastReply.cmd = "test"
    /\ lastReply.state = "returned"
    /\ global_location # None
    /\ Count(lastReply.msgs, "test_sunrise") = 1
    /\ Count(lastReply.msgs, "test_sunset") = 1
    /\ \A k \in Kinds :
          <<lastReply.chat, LocalDate(clock, global_location.tz), k>> \in notified_events_global

\* ------------------------------------------------------------------------
\* Restarts
\* ------------------------------------------------------------------------
\* C13: the ledger and the registry are lost in a restart, so a restart can
\* cause a duplicate; but whatever the number of restarts and of times
\* commands, a chat receives at most two deliveries for a key
\* (chat, date, kind).
C13_AtMostOneDuplicate ==
    \A c \in BagToSet(outbox) : Deliveries(c.key) <= 2

\* a key was delivered by a tick of an earlier process and again, after the
\* restart and a new times command, by a tick of the running process
C13_Witness ==
    \E c \in BagToSet(outbox), d \in BagToSet(outbox) :
        /\ c.key = d.key
        /\ c.now <= started
        /\ started < d.now
        /\ restarts = MaxRestarts
        /\ Deliveries(c.key) = 2

\* ------------------------------------------------------------------------
\* The degenerate case of the solar calculation
\* ------------------------------------------------------------------------
\* the clamp changes cos_omega: the sun does not rise or does not set on
\* that day at the location
ClampActive(loc) == Clamp(loc.cosw) # loc.cosw

\* C14: calculate_sun_times clamps the hour-angle cosine and does not
\* raise; when the clamp is active its result is a sentinel and not a pair
\* of instants, so that a tick at a location where the clamp is active
\* sends no sunrise and no sunset notification.
C14_NoNotificationWhenClamped ==
    [][(IsTickStep /\ ClampActive(global_location)) =>
          /\ attempts' = attempts
          /\ tasks' = tasks
          /\ \A e \in logged' : e[1] # "unhandled"]_vars

\* ------------------------------------------------------------------------
\* Chats without subscribers
\* ------------------------------------------------------------------------
\* Every chat of the registry has at least one member: times adds a chat
\* and its first member in one step (lines 203-205, no await in between)
\* and nothing removes a member.  The case of C15, a due chat with zero
\* subscribers, is therefore a state no behaviour reaches.
EveryChatHasMembers ==
    \A i \in 1..Len(subscribed_chats) : DOMAIN subscribed_chats[i][2] # {}

\* ------------------------------------------------------------------------
\* The life of a ledger key
\* ------------------------------------------------------------------------
\* C16: a key only moves from pending to fired: a key that is in the ledger
\* is still in it after every tick, every end of a send_message call, every
\* command and every change of the location; the only step that removes
\* keys from the ledger is the daily purge (clear_notified_events).
C16_OnlyPurgeRemoves ==
    [][~IsPurgeStep => notified_events_global \subseteq notified_events_global']_vars

\* a key was delivered and marked, a later tick has run, and the location
\* has just been changed to one in another zone (where the tick that
\* delivered ran on another date): the key is still in the ledger
C16_Witness ==
    \E c \in BagToSet(outbox) :
        /\ c.key \in notified_events_global
        /\ nextTick > c.now + TICK_SECONDS
        /\ lastReply.cmd = "location"
        /\ LocalDate(c.now, global_location.tz) # c.key[2]

\* ------------------------------------------------------------------------
\* Retry inside the window, no catch-up after it
\* ------------------------------------------------------------------------
\* the HTML send and the fallback for the key, made by a tick before B for
\* the event at the given instant, have both raised
FailedBefore(key, event, B) ==
    \E c \in BagToSet(attempts) :
        /\ c.key = key /\ c.event = event /\ c.stage = "plain" /\ c.now < B
        /\ Failed(c)
        /\ Failed([c EXCEPT !.stage = "html"])

\* the keys a tick with locals t owes a retry: they failed on an earlier
\* tick, t.now is inside the firing window of the same event, and no
\* message for them has reached the chat by the end of the step
OwedRetry(t) ==
    {key \in {<<subscribed_chats[i][1], t.date, k>> : i \in 1..Len(subscribed_chats), k \in Kinds} :
        /\ SymmetricWindow(t.now, EventOf(t, key[3]))
        /\ FailedBefore(key, EventOf(t, key[3]), t.now)
        /\ \A x \in BagToSet(outbox') : x.key # key}

\* a tick that runs its loop to the end in this step has attempted every key
\* it owes a retry
RetriesOwedKeys ==
    \A t \in tasks \ tasks' :
        ((\A n \in tasks' : n.now # t.now) /\ Len(subscribed_chats) = t.n0) =>
            \A key \in OwedRetry(t) :
                \E d \in BagToSet(attempts') : (d.key = key /\ d.now = t.now)

\* a tick that makes no send_message call owes no retry
NoCallOnlyIfNothingOwed ==
    (IsTickStep /\ tasks' = tasks) =>
        (OwedRetry(TickLocals(nextTick, global_location, subscribed_chats)) = {})

\* C17: when the HTML send and the fallback for a key have both failed on
\* a tick, every later tick inside the same firing window that runs its loop
\* to the end has attempted the key again (unless a message for the key has
\* reached the chat meanwhile); and every send_message call ever made for a
\* key lies inside the firing window of its event, so that after the window
\* no tick attempts or delivers it.
C17_RetryInWindowNoCatchUp ==
    /\ [][RetriesOwedKeys /\ NoCallOnlyIfNothingOwed]_vars
    /\ [](\A c \in BagToSet(attempts) : SymmetricWindow(c.now, c.event))

\* both sends for a key failed on one tick; the next tick (30 s later, in
\* the same window) attempted the key again and delivered it; the tick after
\* that, outside the window, has run and made no call
C17_Witness ==
    \E c \in BagToSet(attempts), d \in BagToSet(outbox) :
        /\ c.stage = "plain" /\ Failed(c)
        /\ Failed([c EXCEPT !.stage = "html"])
        /\ d.key = c.key /\ d.event = c.event
        /\ d.now = c.now + TICK_SECONDS
        /\ tasks = {}
        /\ nextTick > d.now + TICK_SECONDS
        /\ \A x \in BagToSet(attempts) : x.now <= d.now

\* ------------------------------------------------------------------------
\* A tick whose solar calculation raises
\* ------------------------------------------------------------------------
\* the step is a run of the interval job on a location without latitude
IsFailingTickStep ==
    /\ nextTick' # nextTick
    /\ global_location # None
    /\ ~global_location.haslat

\* C18: when the solar calculation raises during a tick, the tick makes no
\* send_message call, leaves the ledger, the registry and the location
\* unchanged and logs the error; the interval job stays scheduled and the
\* following tick runs the calculation again (it logs again, or fires when
\* the location has been replaced meanwhile).
C18_CalcErrorSkipsTick ==
    [][IsFailingTickStep =>
          /\ UNCHANGED <<attempts, outbox, tasks, notified_events_global,
                         subscribed_chats, global_location>>
          /\ CalcLogSite \in logged'
          /\ \A e \in logged' : e[1] # "unhandled"
          /\ nextTick' = nextTick + TICK_SECONDS]_vars

\* the first tick of the process ran on the row without latitude and was
\* skipped; a location payload and a times command followed, and the
\* following tick computed the times and fired
C18_Witness ==
    /\ CalcLogSite \in logged
    /\ \A c \in BagToSet(attempts) : c.now = started + 2 * TICK_SECONDS
    /\ attempts # EmptyBag
    /\ restarts = 0

\* ------------------------------------------------------------------------
\* Overlapping ticks
\* ------------------------------------------------------------------------
\* C19: a tick may start while the send_message call of the previous tick
\* for a key is still awaited and the key is not yet in the ledger; even
\* then the check of the ledger and the marking of the key are not separated
\* in a way that lets two ticks both send: no two ticks ever have a
\* send_message call for the same key under way at the same time.
C19_NoTwoTicksSendSameKey ==
    \A t1 \in tasks, t2 \in tasks :
        t1.now # t2.now =>
            CallOf(subscribed_chats, t1).key # CallOf(subscribed_chats, t2).key

\* ------------------------------------------------------------------------
\* A chat subscribes while a tick is iterating over the registry
\* ------------------------------------------------------------------------
\* the keys of the chats that were in the registry when tick t started whose
\* window contains t.now and for which no message has reached the chat by
\* the end of the step: they were due when the tick started and nobody else
\* has served them
OwedByTick(t) ==
    {key \in {<<subscribed_chats[i][1], t.date, k>> : i \in 1..t.n0, k \in Kinds} :
        /\ SymmetricWindow(t.now, EventOf(t, key[3]))
        /\ \A x \in BagToSet(outbox') : x.key # key}

\* C20: a tick attempts delivery to every chat that was subscribed and due
\* when it started, also when a times command of a chat that was not yet
\* subscribed is handled while one of its deliveries is awaited: when the
\* tick ends, it has made a send_message call for every such key.
C20_TickServesEveryChat ==
    [][\A t \in tasks \ tasks' :
          (\A n \in tasks' : n.now # t.now) =>
              \A key \in OwedByTick(t) :
                  \E d \in BagToSet(attempts') : (d.key = key /\ d.now = t.now)]_vars

====
